---------------------------- MODULE Spec2Model ----------------------------
(***************************************************************************)
(* State-machine model of the metadata-to-diagram core of chartdb:         *)
(*   - adjustTablePositions     (the layout engine, lines 183-330 of the   *)
(*     DBTable source file)                                                *)
(*   - createTablesFromMetadata (the metadata normalizer, lines 42-181)    *)
(*                                                                         *)
(* Numbers.  The code computes positions in IEEE doubles.  The model uses  *)
(* fixed-point integers with three decimals: a coordinate c is stored as   *)
(* c * Scale, and Math.cos / Math.sin are tabulated, rounded to three      *)
(* decimals, at the only angles the code uses (multiples of 2*PI/n).       *)
(*                                                                         *)
(* Objects.  Table objects live in a heap `objs`; collections hold         *)
(* references (indices into the heap), so that aliasing between the        *)
(* caller's tables, the working copy and sortedTables is explicit.         *)
(***************************************************************************)
EXTENDS Integers, Sequences, FiniteSets, TLC

VARIABLES
    \* ---- layout engine (adjustTablePositions) ----
    lpc,                \* "idle" | "start" | "position" | "apply" | "done"
    objs,               \* heap of table objects [id, name, attrs, x, y]
    inputTables,        \* caller's array: references into objs
    inputRelationships, \* caller's array of [sourceTableId, targetTableId]
    tables,             \* const tables = deepCopy(inputTables)
    relationships,      \* const relationships = deepCopy(inputRelationships)
    tableConnections,   \* Map id -> Set of ids (insertion ordered)
    sortedTables,       \* references, connectivity order
    positionedTables,   \* Set of ids
    tablePositions,     \* Map id -> {x, y}
    seedIndex,          \* index of sortedTables.forEach (0-based, next to visit)
    stack,              \* call stack of positionTable frames
    result,             \* returned array (references)
    capReached,         \* some spiral search ran into maxIterations
    \* ---- metadata normalizer (createTablesFromMetadata) ----
    npc,                \* position of the call: "idle" | "map" | "done"
    tableInfos,         \* TableInfo[]
    columns,            \* ColumnInfo[]
    indexes,            \* IndexInfo[]  (one row per indexed column)
    primaryKeys,        \* PrimaryKeyInfo[]
    views,              \* ViewInfo[]
    rng,                \* the draws Math.random() / randomColor() will return
    nextId,             \* generateId(): the next fresh identifier
    mapIndex,           \* index of tableInfos.map (0-based, next to visit)
    mapped,             \* tables built so far by the map callback
    dbTables,           \* returned DBTable[]
    \* ---- token manager (tokenManager.ts, setAuthToken of index.ts) ----
    token,              \* private token: string | null
    tokenCalls,         \* the calls made on the token manager, in order
    getResult,          \* outcome of the latest getToken call
    \* ---- a caller that calls adjustTablePositions a second time ----
    callNo,             \* 1 during the first call, 2 during the second
    previous,           \* arguments and result of the first call, once made
    \* ---- import dialog (ImportDatabase) ----
    scriptResult,       \* prop scriptResult: the text the dialog holds
    errorMessage,       \* const [errorMessage, setErrorMessage] = useState('')
    effectPending,      \* the effect of the last commit has not run yet
    imported,           \* the texts held at the calls of onImport, in order
    eventCount          \* text changes and clicks so far

layoutVars == <<lpc, objs, inputTables, inputRelationships, tables,
                relationships, tableConnections, sortedTables,
                positionedTables, tablePositions, seedIndex, stack, result,
                capReached>>

normVars == <<npc, tableInfos, columns, indexes, primaryKeys, views, rng,
              nextId, mapIndex, mapped, dbTables>>

tokenVars == <<token, tokenCalls, getResult>>

callVars == <<callNo, previous>>

dialogVars == <<scriptResult, errorMessage, effectPending, imported,
                eventCount>>

vars == <<layoutVars, normVars, tokenVars, callVars, dialogVars>>

---------------------------------------------------------------------------
\* Bounds of the model
MaxTables == 3      \* at most this many input tables
MaxRels   == 2      \* at most this many input relationships

\* Fixed-point resolution of a coordinate (x: number, y: number)
Scale == 1000

\* Geometry constants of adjustTablePositions
tableWidth  == 200
tableHeight == 300
gapX == 100
gapY == 100
startX == 100
startY == 100
maxIterations == 1000
SeedsPerRow == 6
SpiralDirections == 8     \* angle += Math.PI / 4 until angle >= 2 * Math.PI

Abs(n) == IF n < 0 THEN -n ELSE n
Max(a, b) == IF a >= b THEN a ELSE b

\* Math.cos(2*PI*j/n) and Math.sin(2*PI*j/n), times Scale, for n in 1..8
CosTable ==
    << <<1000>>,
       <<1000, -1000>>,
       <<1000, -500, -500>>,
       <<1000, 0, -1000, 0>>,
       <<1000, 309, -809, -809, 309>>,
       <<1000, 500, -500, -1000, -500, 500>>,
       <<1000, 623, -223, -901, -901, -223, 623>>,
       <<1000, 707, 0, -707, -1000, -707, 0, 707>> >>
SinTable ==
    << <<0>>,
       <<0, 0>>,
       <<0, 866, -866>>,
       <<0, 1000, 0, -1000>>,
       <<0, 951, 588, -588, -951>>,
       <<0, 866, 866, 0, -866, -866>>,
       <<0, 782, 975, 434, -434, -975, -782>>,
       <<0, 707, 1000, 707, 0, -707, -1000, -707>> >>
\* cos / sin of the angle j * (2*PI / n), scaled
Cos(j, n) == CosTable[n][j + 1]
Sin(j, n) == SinTable[n][j + 1]

---------------------------------------------------------------------------
\* Inputs

\* ids a relationship may name: the tables' ids and one id of no table
IdSpace(n) == 1 .. (n + 1)
RelSeqs(n) ==
    UNION { [1..k -> [sourceTableId : IdSpace(n), targetTableId : IdSpace(n)]]
            : k \in 0..MaxRels }
\* the relationship cycle through all n tables: 1-2, 2-3, ..., n-1
RingRels(n) ==
    [i \in 1..n |-> [sourceTableId |-> i, targetTableId |-> (i % n) + 1]]
RelInputs(n) == RelSeqs(n) \cup {RingRels(n)}
\* at most one relationship (the inputs tried with a repeated table id)
FewRels(n) == { rels \in RelSeqs(n) : Len(rels) <= 1 }
\* ids of the n input tables: pairwise distinct, or the last repeating the first
IdAssignments(n) ==
    {[i \in 1..n |-> i]} \cup
    (IF n >= 2 THEN {[i \in 1..n |-> IF i = n THEN 1 ELSE i]} ELSE {})
\* placeholder coordinates the caller's tables carry (Math.random() based)
Placeholders == { [x |-> 437 * Scale, y |-> 212 * Scale] }

\* name and attrs stand for every attribute other than id, x and y
\* (name, schema, fields, indexes, color, isView)
InputTable(i, id, p) ==
    [id |-> id, name |-> <<"t", i>>, attrs |-> <<"attrs", i>>,
     x |-> p.x + i, y |-> p.y]

---------------------------------------------------------------------------
\* deepCopy(inputTables): fresh objects with equal contents
deepCopy(h, refs) ==
    [heap |-> h \o [i \in 1..Len(refs) |-> h[refs[i]]],
     refs |-> [i \in 1..Len(refs) |-> Len(h) + i]]

WorkingTablesAliased(h, refs) == [heap |-> h, refs |-> refs]
\* const tables = deepCopy(inputTables)
WorkingTables(h, refs) == deepCopy(h, refs)

\* tables.some((t) => t.id === id)
SomeTable(h, refs, id) == \E i \in 1..Len(refs) : h[refs[i]].id = id

KeepAllRels(h, refs, rels) == rels
\* relationships.filter(source and target are input tables)
RECURSIVE FilterRels(_, _, _)
FilterRels(h, refs, rels) ==
    IF rels = <<>> THEN <<>>
    ELSE LET r == Head(rels)
             rest == FilterRels(h, refs, Tail(rels))
         IN IF SomeTable(h, refs, r.sourceTableId)
               /\ SomeTable(h, refs, r.targetTableId)
            THEN <<r>> \o rest ELSE rest

\* Set.add on an insertion-ordered set
SetAdd(s, e) == IF \E i \in 1..Len(s) : s[i] = e THEN s ELSE Append(s, e)

\* the forEach that fills tableConnections; absent keys read as the empty set
RECURSIVE Connections(_, _)
Connections(rels, acc) ==
    IF rels = <<>> THEN acc
    ELSE LET r == Head(rels)
             a1 == [acc EXCEPT ![r.sourceTableId] = SetAdd(@, r.targetTableId)]
             a2 == [a1 EXCEPT ![r.targetTableId] = SetAdd(@, r.sourceTableId)]
         IN Connections(Tail(rels), a2)

\* tableConnections.get(id)?.size || 0
ConnSize(conn, id) == IF id \in DOMAIN conn THEN Len(conn[id]) ELSE 0

\* stable insertion of r into a sequence sorted by descending connection count
RECURSIVE InsertSorted(_, _, _, _)
InsertSorted(h, conn, s, r) ==
    IF s = <<>> THEN <<r>>
    ELSE IF ConnSize(conn, h[Head(s)].id) >= ConnSize(conn, h[r].id)
         THEN <<Head(s)>> \o InsertSorted(h, conn, Tail(s), r)
         ELSE <<r>> \o s

InputOrder(h, conn, refs, acc) == refs
\* [...tables].sort((a, b) => size(b) - size(a))   (Array.prototype.sort is stable)
RECURSIVE SortByConnections(_, _, _, _)
SortByConnections(h, conn, refs, acc) ==
    IF refs = <<>> THEN acc
    ELSE SortByConnections(h, conn, Tail(refs),
                           InsertSorted(h, conn, acc, Head(refs)))

IsOverlappingGapOnly(pos, x, y, currentTableId) ==
    \E t \in DOMAIN pos :
        /\ t # currentTableId
        /\ Abs(x - pos[t].x) < gapX * Scale
        /\ Abs(y - pos[t].y) < gapY * Scale
isOverlapping(pos, x, y, currentTableId) ==
    \E t \in DOMAIN pos :
        /\ t # currentTableId
        /\ Abs(x - pos[t].x) < (tableWidth + gapX) * Scale
        /\ Abs(y - pos[t].y) < (tableHeight + gapY) * Scale

SpiralStepFull == Max(tableWidth, tableHeight)
spiralStep == Max(tableWidth, tableHeight) \div 2

\* the point at angle k * PI/4 and this radius from the base (lines 259-260)
SpiralPoint(baseX, baseY, k, radius) ==
    [x |-> baseX + radius * Cos(k, SpiralDirections),
     y |-> baseY + radius * Sin(k, SpiralDirections)]

\* the iterations of the while loop at one radius, from angle k * PI/4 on:
\* the first angle whose point is free, or `last` when the sweep (or the
\* iteration budget) ends before one is found
RECURSIVE Sweep(_, _, _, _, _, _, _)
Sweep(pos, baseX, baseY, tableId, k, radius, last) ==
    IF k >= last THEN last
    ELSE LET p == SpiralPoint(baseX, baseY, k, radius)
         IN IF ~isOverlapping(pos, p.x, p.y, tableId) THEN k
            ELSE Sweep(pos, baseX, baseY, tableId, k + 1, radius, last)

\* the while loop of findNonOverlappingPosition (lines 258-276), one sweep
\* of the angle per level: `iterations` is the count at the start of the
\* sweep, when angle = 0
RECURSIVE SpiralSearch(_, _, _, _, _, _)
SpiralSearch(pos, baseX, baseY, tableId, radius, iterations) ==
    LET budget == maxIterations - iterations
        last == IF budget < SpiralDirections THEN budget ELSE SpiralDirections
        k == Sweep(pos, baseX, baseY, tableId, 0, radius, last)
        p == SpiralPoint(baseX, baseY, k, radius)
    IN IF k < last
       THEN [x |-> p.x, y |-> p.y, capped |-> FALSE]
       ELSE IF last < SpiralDirections
            THEN [x |-> p.x, y |-> p.y, capped |-> TRUE]
            ELSE SpiralSearch(pos, baseX, baseY, tableId,
                              radius + spiralStep, iterations + last)

KeepInputPosition(pos, baseX, baseY, tableId) ==
    [x |-> objs[stack[Len(stack)].table].x,
     y |-> objs[stack[Len(stack)].table].y, capped |-> FALSE]
AcceptBase(pos, baseX, baseY, tableId) ==
    [x |-> baseX, y |-> baseY, capped |-> FALSE]
findNonOverlappingPosition(pos, baseX, baseY, tableId) ==
    SpiralSearch(pos, baseX, baseY, tableId, 0, 0)

\* tables.find((t) => t.id === id): the first match, 0 when there is none
FindTable(h, refs, id) ==
    IF SomeTable(h, refs, id)
    THEN refs[CHOOSE i \in 1..Len(refs) :
                 /\ h[refs[i]].id = id
                 /\ \A j \in 1..(i - 1) : h[refs[j]].id # id]
    ELSE 0

NeverPositioned(placed, id) == FALSE
\* positionedTables.has(id)
IsPositioned(placed, id) == id \in placed

NotMarked(placed, id) == placed
\* positionedTables.add(table.id)
MarkPositioned(placed, id) == placed \cup {id}

Frame(table, baseX, baseY) ==
    [table |-> table, baseX |-> baseX, baseY |-> baseY, stage |-> "call",
     x |-> 0, y |-> 0, cursor |-> 1, angle |-> 0]

Top == stack[Len(stack)]
Pop == SubSeq(stack, 1, Len(stack) - 1)
ConnectedTables(id) ==
    IF id \in DOMAIN tableConnections THEN tableConnections[id] ELSE <<>>

\* ---- token manager ----
\* string | null: <<>> is null and <<s>> the string s (a sequence of characters)
Null == <<>>
StringValue(str) == <<str>>
\* !this.token: null and the empty string '' are falsy
Falsy(t) == t = Null \/ t = StringValue(<<>>)
NoTokenSet == "No token set"
NoResult == [kind |-> "none"]
Throws(message) == [kind |-> "throw", message |-> message]
Returns(value) == [kind |-> "return", value |-> value]
Call(name, arg) == [name |-> name, arg |-> arg]
\* the token manager right after construction, no call made
TokenIdle ==
    /\ token = Null
    /\ tokenCalls = <<>>
    /\ getResult = NoResult

\* no call of adjustTablePositions has returned yet
NoCall == [kind |-> "none"]
FirstCall ==
    /\ callNo = 1
    /\ previous = NoCall

\* the import dialog is not mounted
DialogIdle ==
    /\ scriptResult = <<>>
    /\ errorMessage = ""
    /\ effectPending = FALSE
    /\ imported = <<>>
    /\ eventCount = 0

\* the normalizer is not running
NormIdle ==
    /\ npc = "idle"
    /\ tableInfos = <<>>
    /\ columns = <<>>
    /\ indexes = <<>>
    /\ primaryKeys = <<>>
    /\ views = <<>>
    /\ rng = <<>>
    /\ nextId = 1
    /\ mapIndex = 0
    /\ mapped = <<>>
    /\ dbTables = <<>>

---------------------------------------------------------------------------
\* State after the caller has built its arguments
LayoutInit ==
    /\ lpc = "start"
    /\ \E n \in 0..MaxTables, p \in Placeholders :
          /\ \E ids \in IdAssignments(n) :
                /\ objs = [i \in 1..n |-> InputTable(i, ids[i], p)]
                /\ inputRelationships \in
                      IF ids = [i \in 1..n |-> i]
                      THEN RelInputs(n) ELSE FewRels(n)
          /\ inputTables = [i \in 1..n |-> i]
    /\ tables = <<>>
    /\ relationships = <<>>
    /\ tableConnections = <<>>
    /\ sortedTables = <<>>
    /\ positionedTables = {}
    /\ tablePositions = <<>>
    /\ seedIndex = 0
    /\ stack = <<>>
    /\ result = <<>>
    /\ capReached = FALSE
    /\ NormIdle
    /\ TokenIdle
    /\ FirstCall
    /\ DialogIdle

\* lines 190-228: copies, filter, connection map, sort, empty placed-set and map
Begin ==
    /\ lpc = "start"
    /\ LET w == WorkingTables(objs, inputTables)
           rels == inputRelationships
           filtered == FilterRels(w.heap, w.refs, rels)
           ids == { w.heap[w.refs[i]].id : i \in 1..Len(w.refs) }
           conn == Connections(filtered, [i \in ids |-> <<>>])
       IN /\ objs' = w.heap
          /\ tables' = w.refs
          /\ relationships' = rels
          /\ tableConnections' = conn
          /\ sortedTables' = SortByConnections(w.heap, conn, w.refs, <<>>)
    /\ positionedTables' = {}
    /\ tablePositions' = <<>>
    /\ seedIndex' = 0
    /\ lpc' = "position"
    /\ UNCHANGED <<inputTables, inputRelationships, stack, result, capReached,
                   normVars, tokenVars, callVars,
                   dialogVars>>

\* the grid cell of the table at this index of sortedTables (lines 312-315)
SeedCell(index) ==
    LET row == index \div SeedsPerRow
        col == index % SeedsPerRow
    IN [x |-> (startX + col * (tableWidth + gapX * 2)) * Scale,
        y |-> (startY + row * (tableHeight + gapY * 2)) * Scale]

\* one iteration of sortedTables.forEach (lines 310-318)
SeedForEach ==
    /\ lpc = "position"
    /\ stack = <<>>
    /\ seedIndex < Len(sortedTables)
    /\ LET table == sortedTables[seedIndex + 1]
           cell == SeedCell(seedIndex)
       IN stack' = IF ~IsPositioned(positionedTables, objs[table].id)
                   THEN <<Frame(table, cell.x, cell.y)>> ELSE <<>>
    /\ seedIndex' = seedIndex + 1
    /\ UNCHANGED <<lpc, objs, inputTables, inputRelationships, tables,
                   relationships, tableConnections, sortedTables,
                   positionedTables, tablePositions, result, capReached,
                   normVars, tokenVars, callVars,
                   dialogVars>>

\* positionTable up to the forEach over the connected tables (lines 280-292)
PositionTable ==
    /\ lpc = "position"
    /\ stack # <<>>
    /\ Top.stage = "call"
    /\ LET id == objs[Top.table].id
           p == findNonOverlappingPosition(tablePositions, Top.baseX,
                                           Top.baseY, id)
       IN IF IsPositioned(positionedTables, id)
          THEN /\ stack' = Pop
               /\ UNCHANGED <<objs, tablePositions, positionedTables,
                              capReached>>
          ELSE /\ objs' = [objs EXCEPT ![Top.table].x = p.x,
                                       ![Top.table].y = p.y]
               /\ tablePositions' =
                     [t \in DOMAIN tablePositions \cup {id} |->
                        IF t = id THEN [x |-> p.x, y |-> p.y]
                        ELSE tablePositions[t]]
               /\ positionedTables' = MarkPositioned(positionedTables, id)
               /\ capReached' = (capReached \/ p.capped)
               /\ stack' = [stack EXCEPT ![Len(stack)] =
                              [@ EXCEPT !.stage = "forEach",
                                        !.x = p.x, !.y = p.y]]
    /\ UNCHANGED <<lpc, inputTables, inputRelationships, tables,
                   relationships, tableConnections, sortedTables, seedIndex,
                   result,
                   normVars, tokenVars, callVars,
                   dialogVars>>

SkipNeighborAdvancingAngle(frame) ==
    [frame EXCEPT !.cursor = @ + 1, !.angle = @ + 1]
\* the forEach goes on to the next connected table, the angle as it was
SkipNeighbor(frame) == [frame EXCEPT !.cursor = @ + 1]

\* one iteration of connectedTables.forEach (lines 294-306)
ConnectedForEach ==
    /\ lpc = "position"
    /\ stack # <<>>
    /\ Top.stage = "forEach"
    /\ LET connected == ConnectedTables(objs[Top.table].id)
       IN /\ Top.cursor <= Len(connected)
          /\ LET connectedTableId == connected[Top.cursor]
                 connectedTable == FindTable(objs, tables, connectedTableId)
                 newX == Top.x + Cos(Top.angle, Len(connected))
                                   * (tableWidth + gapX * 2)
                 newY == Top.y + Sin(Top.angle, Len(connected))
                                   * (tableHeight + gapY * 2)
             IN IF ~IsPositioned(positionedTables, connectedTableId)
                   /\ connectedTable # 0
                THEN stack' =
                       Append([stack EXCEPT ![Len(stack)] =
                                 [@ EXCEPT !.cursor = @ + 1,
                                           !.angle = @ + 1]],
                              Frame(connectedTable, newX, newY))
                ELSE stack' = [stack EXCEPT ![Len(stack)] = SkipNeighbor(@)]
    /\ UNCHANGED <<lpc, objs, inputTables, inputRelationships, tables,
                   relationships, tableConnections, sortedTables,
                   positionedTables, tablePositions, seedIndex, result,
                   capReached,
                   normVars, tokenVars, callVars,
                   dialogVars>>

\* positionTable returns after the last connected table
PositionTableReturn ==
    /\ lpc = "position"
    /\ stack # <<>>
    /\ Top.stage = "forEach"
    /\ Top.cursor > Len(ConnectedTables(objs[Top.table].id))
    /\ stack' = Pop
    /\ UNCHANGED <<lpc, objs, inputTables, inputRelationships, tables,
                   relationships, tableConnections, sortedTables,
                   positionedTables, tablePositions, seedIndex, result,
                   capReached,
                   normVars, tokenVars, callVars,
                   dialogVars>>

\* tables.forEach: copy the map's positions onto the tables (lines 321-327)
ApplyPositions ==
    /\ lpc = "position"
    /\ stack = <<>>
    /\ seedIndex = Len(sortedTables)
    /\ objs' = [r \in DOMAIN objs |->
                  IF (\E i \in 1..Len(tables) : tables[i] = r)
                     /\ objs[r].id \in DOMAIN tablePositions
                  THEN [objs[r] EXCEPT !.x = tablePositions[objs[r].id].x,
                                       !.y = tablePositions[objs[r].id].y]
                  ELSE objs[r]]
    /\ lpc' = "apply"
    /\ UNCHANGED <<inputTables, inputRelationships, tables, relationships,
                   tableConnections, sortedTables, positionedTables,
                   tablePositions, seedIndex, stack, result, capReached,
                   normVars, tokenVars, callVars,
                   dialogVars>>

ReturnedSorted == sortedTables
ReturnedTables == tables
\* return tables (line 329)
Return ==
    /\ lpc = "apply"
    /\ result' = ReturnedTables
    /\ lpc' = "done"
    /\ UNCHANGED <<objs, inputTables, inputRelationships, tables,
                   relationships, tableConnections, sortedTables,
                   positionedTables, tablePositions, seedIndex, stack,
                   capReached,
                   normVars, tokenVars, callVars,
                   dialogVars>>

LayoutNext ==
    \/ Begin
    \/ SeedForEach
    \/ PositionTable
    \/ ConnectedForEach
    \/ PositionTableReturn
    \/ ApplyPositions
    \/ Return

SpecLayout == LayoutInit /\ [][LayoutNext]_vars
\* the call runs to completion: JavaScript runs a synchronous function
\* without preemption, so an enabled step is eventually taken
SpecLayoutFair == SpecLayout /\ WF_vars(LayoutNext)

\* Wider inputs: WideTables tables with pairwise distinct ids and a star of
\* relationships (a hub, its leaves, optionally a self-relationship of the
\* hub); the tables that are not leaves have no relationship
WideTables == 7
StarLeaf(hub, j) == IF j < hub THEN j ELSE j + 1
StarRels(hub, k, self) ==
    (IF self THEN <<[sourceTableId |-> hub, targetTableId |-> hub]>>
     ELSE <<>>)
    \o [j \in 1..k |-> [sourceTableId |-> hub,
                        targetTableId |-> StarLeaf(hub, j)]]
WideRels(n) ==
    { StarRels(hub, k, self) :
        hub \in {1, n}, k \in 0..(n - 2), self \in BOOLEAN }
LayoutInitWide ==
    /\ lpc = "start"
    /\ \E p \in Placeholders :
          objs = [i \in 1..WideTables |-> InputTable(i, i, p)]
    /\ inputTables = [i \in 1..WideTables |-> i]
    /\ inputRelationships \in WideRels(WideTables)
    /\ tables = <<>>
    /\ relationships = <<>>
    /\ tableConnections = <<>>
    /\ sortedTables = <<>>
    /\ positionedTables = {}
    /\ tablePositions = <<>>
    /\ seedIndex = 0
    /\ stack = <<>>
    /\ result = <<>>
    /\ capReached = FALSE
    /\ NormIdle
    /\ TokenIdle
    /\ FirstCall
    /\ DialogIdle
SpecLayoutWide == LayoutInitWide /\ [][LayoutNext]_vars

\* A caller that calls adjustTablePositions again once the first call has
\* returned, with arguments that differ from the first call's in one respect
\* (two runs of the function, one after the other)
CallerTables == [i \in 1..Len(inputTables) |-> objs[inputTables[i]]]
ReturnedPositions ==
    [i \in 1..Len(result) |-> [x |-> objs[result[i]].x, y |-> objs[result[i]].y]]
\* neither tables.some(...) of lines 196-197 finds a table for this id
NoTableHas(id) == ~SomeTable(objs, inputTables, id)
\* rels.filter((_, i) => i !== k - 1)
RemoveAt(rels, k) ==
    [i \in 1..(Len(rels) - 1) |-> IF i < k THEN rels[i] ELSE rels[i + 1]]
\* coordinates the tables of the second call carry: the origin, or the
\* positions the first call returned
OtherCoordinates == {"origin", "returned"}
MovedTable(i, coordinates) ==
    IF coordinates = "origin"
    THEN [objs[inputTables[i]] EXCEPT !.x = 0, !.y = 0]
    ELSE [objs[inputTables[i]] EXCEPT !.x = objs[result[i]].x,
                                      !.y = objs[result[i]].y]

\* adjustTablePositions({ tables, relationships }) called a second time
CallAgain(kind, newTables, newRelationships) ==
    /\ lpc = "done"
    /\ callNo = 1
    /\ callNo' = 2
    /\ previous' = [kind |-> kind,
                    tables |-> CallerTables,
                    relationships |-> inputRelationships,
                    positions |-> ReturnedPositions]
    /\ objs' = newTables
    /\ inputRelationships' = newRelationships
    /\ lpc' = "start"
    /\ tables' = <<>>
    /\ relationships' = <<>>
    /\ tableConnections' = <<>>
    /\ sortedTables' = <<>>
    /\ positionedTables' = {}
    /\ tablePositions' = <<>>
    /\ seedIndex' = 0
    /\ stack' = <<>>
    /\ result' = <<>>
    /\ capReached' = FALSE
    /\ UNCHANGED <<inputTables, normVars, tokenVars, dialogVars>>

\* the second call gets the same tables and the relationships without one
\* whose source or target is the id of no table
CallWithoutDangling ==
    \E k \in 1..Len(inputRelationships) :
        /\ \/ NoTableHas(inputRelationships[k].sourceTableId)
           \/ NoTableHas(inputRelationships[k].targetTableId)
        /\ CallAgain("removed", CallerTables, RemoveAt(inputRelationships, k))

\* the second call gets the same relationships and the same tables but for
\* their x and y
CallWithOtherCoordinates ==
    \E coordinates \in OtherCoordinates :
        CallAgain("moved",
                  [i \in 1..Len(inputTables) |-> MovedTable(i, coordinates)],
                  inputRelationships)

\* arguments of the first of two calls: tables with pairwise distinct ids,
\* and relationships between two tables written once (source before target
\* in the table array, or a self-relationship; lines 216-217 treat the two
\* ends alike) next to relationships with an end that is the id of no table
TwiceRels(n) ==
    { rels \in RelSeqs(n) :
        \A k \in 1..Len(rels) :
            \/ rels[k].sourceTableId <= rels[k].targetTableId
            \/ rels[k].sourceTableId = n + 1 }
LayoutInitTwice ==
    /\ lpc = "start"
    /\ \E n \in 0..MaxTables, p \in Placeholders :
          /\ objs = [i \in 1..n |-> InputTable(i, i, p)]
          /\ inputRelationships \in TwiceRels(n)
          /\ inputTables = [i \in 1..n |-> i]
    /\ tables = <<>>
    /\ relationships = <<>>
    /\ tableConnections = <<>>
    /\ sortedTables = <<>>
    /\ positionedTables = {}
    /\ tablePositions = <<>>
    /\ seedIndex = 0
    /\ stack = <<>>
    /\ result = <<>>
    /\ capReached = FALSE
    /\ NormIdle
    /\ TokenIdle
    /\ FirstCall
    /\ DialogIdle

TwiceNext ==
    \/ LayoutNext
    \/ CallWithoutDangling
    \/ CallWithOtherCoordinates
SpecLayoutTwice == LayoutInitTwice /\ [][TwiceNext]_vars

\* findNonOverlappingPosition on its own: the state at a call of line 282,
\* the position map holding a block of tables laid out at the spacing of the
\* grid (tableWidth + 2 gapX by tableHeight + 2 gapY, so no two overlap)
\* around the origin, and the base point next to the block's center
MaxLattice == 3      \* blocks of up to (2 * 3 + 1) x (2 * 3 + 1) tables
MaxOffset == 3       \* base points at up to 3 offsets per axis
\* columns and rows of the block that covers every point the search can
\* test before it gives up
CapColumns ==
    ((maxIterations \div SpiralDirections) * spiralStep)
        \div (tableWidth + gapX * 2) + 1
CapRows ==
    ((maxIterations \div SpiralDirections) * spiralStep)
        \div (tableHeight + gapY * 2) + 1
Lattice(kc, kr) ==
    [id \in 1..((2 * kc + 1) * (2 * kr + 1)) |->
        [x |-> (((id - 1) % (2 * kc + 1)) - kc)
                 * (tableWidth + gapX * 2) * Scale,
         y |-> (((id - 1) \div (2 * kc + 1)) - kr)
                 * (tableHeight + gapY * 2) * Scale]]
\* a table at the origin and tables along the eight directions of the
\* search, kc per horizontal and diagonal direction and kr per vertical one,
\* again no two overlapping
Rays(kc, kr) ==
    LET w == (tableWidth + gapX * 2) * Scale
        h == (tableHeight + gapY * 2) * Scale
    IN <<[x |-> 0, y |-> 0]>>
       \o [j \in 1..kc |-> [x |-> j * w, y |-> 0]]
       \o [j \in 1..kc |-> [x |-> -j * w, y |-> 0]]
       \o [j \in 1..kr |-> [x |-> 0, y |-> j * h]]
       \o [j \in 1..kr |-> [x |-> 0, y |-> -j * h]]
       \o [j \in 1..kc |-> [x |-> j * w, y |-> j * w]]
       \o [j \in 1..kc |-> [x |-> -j * w, y |-> j * w]]
       \o [j \in 1..kc |-> [x |-> -j * w, y |-> -j * w]]
       \o [j \in 1..kc |-> [x |-> j * w, y |-> -j * w]]
BaseOffsets ==
    { [x |-> i * 145 * Scale, y |-> j * 195 * Scale] : i, j \in 0..MaxOffset }
SearchInputs ==
    ( ({<<>>} \cup { Lattice(k, k) : k \in 0..MaxLattice }) \X BaseOffsets )
    \cup { <<Rays(k, k), [x |-> 0, y |-> 0]>> : k \in 1..MaxLattice }
    \cup { <<Rays(CapColumns, CapRows), [x |-> 0, y |-> 0]>> }
SearchInit ==
    /\ lpc = "search"
    /\ \E p \in Placeholders : objs = <<InputTable(1, 0, p)>>
    /\ inputTables = <<>>
    /\ inputRelationships = <<>>
    /\ tables = <<1>>
    /\ relationships = <<>>
    /\ tableConnections = <<>>
    /\ sortedTables = <<1>>
    /\ \E in \in SearchInputs :
          /\ tablePositions = in[1]
          /\ stack = <<Frame(1, in[2].x, in[2].y)>>
    /\ positionedTables = DOMAIN tablePositions
    /\ seedIndex = 0
    /\ result = <<>>
    /\ capReached = FALSE
    /\ NormIdle
    /\ TokenIdle
    /\ FirstCall
    /\ DialogIdle

\* const { x, y } = findNonOverlappingPosition(baseX, baseY, table.id)
FindPosition ==
    /\ lpc = "search"
    /\ \E p \in {findNonOverlappingPosition(tablePositions, Top.baseX,
                                             Top.baseY, objs[Top.table].id)} :
          /\ stack' = [stack EXCEPT ![Len(stack)] =
                         [@ EXCEPT !.stage = "found", !.x = p.x, !.y = p.y]]
          /\ capReached' = p.capped
    /\ lpc' = "found"
    /\ UNCHANGED <<objs, inputTables, inputRelationships, tables,
                   relationships, tableConnections, sortedTables,
                   positionedTables, tablePositions, seedIndex, result,
                   normVars, tokenVars, callVars,
                   dialogVars>>

SpecSpiral == SearchInit /\ [][FindPosition]_vars

---------------------------------------------------------------------------
\* Claims about adjustTablePositions

DistinctIds ==
    \A i, j \in 1..Len(inputTables) :
        i # j => objs[inputTables[i]].id # objs[inputTables[j]].id
OutTable(i) == objs[result[i]]
\* a table that is not on a cell of the seeding grid
OffGrid(t) ==
    /\ \/ (t.x - startX * Scale) % ((tableWidth + gapX * 2) * Scale) # 0
       \/ (t.y - startY * Scale) % ((tableHeight + gapY * 2) * Scale) # 0

\* C1: when the input tables have pairwise distinct ids and no spiral search
\* reached the iteration cap, no two distinct tables of the output are closer
\* than tableWidth+gapX on x and closer than tableHeight+gapY on y at once.
C1_NoOverlap ==
    (lpc = "done" /\ DistinctIds /\ ~capReached) =>
        \A i, j \in 1..Len(result) :
            i # j =>
                ~ ( /\ Abs(OutTable(i).x - OutTable(j).x)
                         < (tableWidth + gapX) * Scale
                    /\ Abs(OutTable(i).y - OutTable(j).y)
                         < (tableHeight + gapY) * Scale )
\* a finished run in which the spiral search moved a table: every table has
\* at most one neighbor, so every base point (a grid seed, or the offset at
\* angle 0 from a table on the grid) is a grid cell, and one table is off it
C1_Witness ==
    /\ lpc = "done" /\ DistinctIds /\ ~capReached
    /\ Len(result) >= 3
    /\ \A i \in 1..Len(result) :
          ConnSize(tableConnections, OutTable(i).id) <= 1
    /\ \E i \in 1..Len(result) : OffGrid(OutTable(i))

\* C2: the call terminates, also with relationship cycles and
\* self-relationships, and at the return every input table is in the
\* placed-set and has an entry in the position map equal to its output x, y.
\* Termination is stated with a variant: Remaining is a natural number that
\* every step of the call lowers, and only the returned call has no step.
AllPlaced ==
    \A i \in 1..Len(inputTables) :
        LET id == objs[inputTables[i]].id
        IN /\ id \in positionedTables
           /\ id \in DOMAIN tablePositions
           /\ i <= Len(result)
           /\ tablePositions[id] = [x |-> OutTable(i).x, y |-> OutTable(i).y]
\* steps one placement can take: its forEach visits and pushes, its return
PlacementCost(n) == 2 * n + 4
RECURSIVE SumFrames(_)
SumFrames(st) ==
    IF st = <<>> THEN 0
    ELSE (IF Head(st).stage = "call" THEN 1
          ELSE 2 * Max(0, Len(ConnectedTables(objs[Head(st).table].id))
                            - Head(st).cursor + 1) + 1)
         + SumFrames(Tail(st))
Unplaced ==
    Cardinality({ objs[tables[i]].id : i \in 1..Len(tables) }
                \ positionedTables)
Remaining ==
    CASE lpc = "start" ->
             Len(inputTables) * PlacementCost(Len(inputTables))
               + 2 * Len(inputTables) + 3
      [] lpc = "position" ->
             Unplaced * PlacementCost(Len(tables))
               + 2 * (Len(sortedTables) - seedIndex) + SumFrames(stack) + 2
      [] lpc = "apply" -> 1
      [] OTHER -> 0
\* the enabling conditions of the steps of the call
CanStep ==
    \/ lpc = "start"
    \/ lpc = "apply"
    \/ /\ lpc = "position"
       /\ \/ stack = <<>> /\ seedIndex <= Len(sortedTables)
          \/ stack # <<>> /\ Top.stage \in {"call", "forEach"}
CanStepIsEnabled == CanStep <=> ENABLED LayoutNext
C2_TerminatesAllPlaced ==
    /\ [][Remaining' < Remaining]_vars
    /\ [](Remaining >= 0)
    /\ [](lpc # "done" => CanStep)
    /\ [](lpc = "done" => AllPlaced)
\* the same, as a liveness property of the fair specification
Terminates == <>(lpc = "done")
HasSelfRelationship ==
    \E k \in 1..Len(relationships) :
        /\ relationships[k].sourceTableId = relationships[k].targetTableId
        /\ relationships[k].sourceTableId \in positionedTables
HasCycle ==
    /\ Len(tables) >= 3
    /\ \A i \in 1..Len(tables) :
          ConnSize(tableConnections, objs[tables[i]].id) = 2
\* finished runs over a relationship cycle and over a self-relationship
C2_Witness == lpc = "done" /\ DistinctIds /\ HasCycle
C2_WitnessSelf == lpc = "done" /\ HasSelfRelationship

\* C3: no step of the call changes the caller's arrays, the caller's table
\* objects (x and y included) or the caller's relationship objects.
C3_CallerDataUnchanged ==
    [][ /\ inputTables' = inputTables
        /\ inputRelationships' = inputRelationships
        /\ \A i \in 1..Len(inputTables) :
              objs'[inputTables[i]] = objs[inputTables[i]] ]_vars
\* a finished run whose working copies were moved away from the placeholders
C3_Witness ==
    /\ lpc = "done"
    /\ Len(result) >= 2
    /\ \A i \in 1..Len(result) :
          /\ OutTable(i).x # objs[inputTables[i]].x
          /\ result[i] # inputTables[i]

\* C4: the returned array has the input's length and its i-th table has the
\* id and every non-position attribute of the i-th input table.
C4_SameOrderSameAttributes ==
    lpc = "done" =>
        /\ Len(result) = Len(inputTables)
        /\ \A i \in 1..Len(result) :
              /\ OutTable(i).id = objs[inputTables[i]].id
              /\ OutTable(i).name = objs[inputTables[i]].name
              /\ OutTable(i).attrs = objs[inputTables[i]].attrs
\* a finished run in which the connectivity sort reordered the tables
C4_Witness ==
    /\ lpc = "done"
    /\ Len(result) >= 2
    /\ sortedTables # tables

\* ids of the input tables, and the neighbors the retained relationships
\* give a table id (both endpoints are input tables)
TableIds == { objs[inputTables[i]].id : i \in 1..Len(inputTables) }
NeighborSet(id) ==
    { t \in TableIds :
        \E k \in 1..Len(inputRelationships) :
            LET r == inputRelationships[k]
            IN /\ r.sourceTableId \in TableIds
               /\ r.targetTableId \in TableIds
               /\ \/ r.sourceTableId = id /\ r.targetTableId = t
                  \/ r.targetTableId = id /\ r.sourceTableId = t }
NeighborCount(i) == Cardinality(NeighborSet(objs[inputTables[i]].id))
\* the i-th input table comes first in the connectivity order
FirstInOrder(i) ==
    \A j \in 1..Len(inputTables) :
        \/ NeighborCount(j) < NeighborCount(i)
        \/ NeighborCount(j) = NeighborCount(i) /\ i <= j
\* input table h is a hub whose neighbors are the two other tables, each
\* of which has h as its only neighbor
HubOfThree(h) ==
    /\ Len(inputTables) = 3
    /\ DistinctIds
    /\ NeighborCount(h) = 2
    /\ \A i \in 1..3 :
          i # h => NeighborSet(objs[inputTables[i]].id)
                      = {objs[inputTables[h]].id}
Overlaps(a, b) ==
    /\ Abs(a.x - b.x) < (tableWidth + gapX) * Scale
    /\ Abs(a.y - b.y) < (tableHeight + gapY) * Scale

\* C11: the table first in connectivity order (largest neighbor set, input
\* order breaking ties) ends at (startX, startY) = (100, 100); with three
\* tables A, B, C and relationships A-B, A-C, table A ends at (100, 100) and
\* B and C end at two different satellite offsets of A (angle j * 360/2
\* degrees, distance tableWidth + 2 gapX on x and tableHeight + 2 gapY on y),
\* no two of the three overlapping.
C11_FirstInOrderAtStart ==
    lpc = "done" =>
        /\ \A i \in 1..Len(result) :
              FirstInOrder(i) =>
                  /\ OutTable(i).x = 100 * Scale
                  /\ OutTable(i).y = 100 * Scale
        /\ \A h \in 1..Len(result) :
              HubOfThree(h) =>
                  /\ OutTable(h).x = 100 * Scale /\ OutTable(h).y = 100 * Scale
                  /\ \A i \in 1..3 :
                        i # h =>
                            \E j \in 0..1 :
                                /\ OutTable(i).x = OutTable(h).x
                                      + Cos(j, 2) * (tableWidth + 2 * gapX)
                                /\ OutTable(i).y = OutTable(h).y
                                      + Sin(j, 2) * (tableHeight + 2 * gapY)
                  /\ \A i, j \in 1..3 :
                        i # j => ~Overlaps(OutTable(i), OutTable(j))
\* a finished run of the three-table scenario whose hub is the last input
\* table, so that the connectivity sort moved it to the front
C11_Witness ==
    /\ lpc = "done"
    /\ HubOfThree(3)
    /\ FirstInOrder(3)
    /\ OutTable(1).x # OutTable(2).x

\* 0-based index of the i-th input table in the connectivity order: the
\* number of tables that come before it
ComesBeforeInOrder(j, i) ==
    \/ NeighborCount(j) > NeighborCount(i)
    \/ NeighborCount(j) = NeighborCount(i) /\ j < i
OrderIndex(i) ==
    Cardinality({ j \in 1..Len(inputTables) : ComesBeforeInOrder(j, i) })
AtOwnSeed(i) ==
    /\ OutTable(i).x = SeedCell(OrderIndex(i)).x
    /\ OutTable(i).y = SeedCell(OrderIndex(i)).y
\* the seed cell of the i-th table overlaps a table that comes before it
SeedTaken(i) ==
    \E j \in 1..Len(result) :
        /\ ComesBeforeInOrder(j, i)
        /\ Overlaps(SeedCell(OrderIndex(i)), OutTable(j))

\* C12 (as claimed): every table with zero neighbors ends exactly at the
\* grid cell of its index in the connectivity order, wherever the satellites
\* of earlier components were put.
C12_IsolatedAtOwnSeed ==
    (lpc = "done" /\ DistinctIds) =>
        \A i \in 1..Len(result) : NeighborCount(i) = 0 => AtOwnSeed(i)
\* C12 (amended): a table with zero neighbors ends at the grid cell of its
\* index in the connectivity order exactly when that cell overlaps no table
\* that comes before it in that order; otherwise the spiral search around
\* the cell moves it.
C12_IsolatedAtSeedIffFree ==
    (lpc = "done" /\ DistinctIds) =>
        \A i \in 1..Len(result) :
            NeighborCount(i) = 0 => (AtOwnSeed(i) <=> ~SeedTaken(i))
\* a finished run with an isolated table moved off its taken cell and
\* another isolated table on its own cell
C12_Witness ==
    /\ lpc = "done" /\ DistinctIds
    /\ \E i, j \in 1..Len(result) :
          /\ NeighborCount(i) = 0 /\ SeedTaken(i) /\ ~AtOwnSeed(i)
          /\ NeighborCount(j) = 0 /\ ~SeedTaken(j) /\ AtOwnSeed(j)

\* the next step visits a table that is already in the placed-set: from the
\* seeding loop, as a neighbor, or as the table of a positionTable activation
SeedVisitsPlaced ==
    /\ lpc = "position" /\ stack = <<>>
    /\ seedIndex < Len(sortedTables)
    /\ objs[sortedTables[seedIndex + 1]].id \in positionedTables
NeighborVisitsPlaced ==
    /\ lpc = "position" /\ stack # <<>>
    /\ Top.stage = "forEach"
    /\ Top.cursor <= Len(ConnectedTables(objs[Top.table].id))
    /\ ConnectedTables(objs[Top.table].id)[Top.cursor] \in positionedTables
CallOnPlaced ==
    /\ lpc = "position" /\ stack # <<>>
    /\ Top.stage = "call"
    /\ objs[Top.table].id \in positionedTables
PlacementUnchanged ==
    /\ tablePositions' = tablePositions
    /\ positionedTables' = positionedTables

\* C13: within one run an entry of the position map, once written, is never
\* written again, and the placed-set only grows; a visit to a table that is
\* already in the placed-set (from the seeding loop, from a neighbor, through
\* a cycle or a self-relationship) changes neither the position map nor the
\* placed-set and starts no placement.
C13_PositionWrittenOnce ==
    /\ [][ lpc = "position" =>
             /\ positionedTables \subseteq positionedTables'
             /\ \A id \in DOMAIN tablePositions :
                   /\ id \in DOMAIN tablePositions'
                   /\ tablePositions'[id] = tablePositions[id] ]_vars
    /\ [][ SeedVisitsPlaced => (PlacementUnchanged /\ stack' = <<>>) ]_vars
    /\ [][ NeighborVisitsPlaced =>
             (PlacementUnchanged /\ Len(stack') = Len(stack)) ]_vars
    /\ [][ CallOnPlaced => (PlacementUnchanged /\ stack' = Pop) ]_vars
    /\ [](DOMAIN tablePositions = positionedTables)
\* a placed table has just been visited again as its own neighbor (a
\* self-relationship) and the walk went on without a new activation
C13_Witness ==
    /\ lpc = "position" /\ stack # <<>>
    /\ Top.stage = "forEach"
    /\ Top.cursor >= 2
    /\ ConnectedTables(objs[Top.table].id)[Top.cursor - 1] = objs[Top.table].id
    /\ objs[Top.table].id \in positionedTables
    /\ Len(ConnectedTables(objs[Top.table].id)) >= 2
\* a finished run over a relationship cycle: every table was visited again
\* from a neighbor after it was placed
C13_WitnessCycle == lpc = "done" /\ DistinctIds /\ HasCycle /\ AllPlaced

\* the seeding loop has just made the table at index seedIndex - 1 of the
\* connectivity order a cluster seed
SeedJustCalled ==
    /\ lpc = "position"
    /\ Len(stack) = 1
    /\ stack[1].stage = "call"

\* C18: the table that becomes a cluster seed at index i of the connectivity
\* order gets as candidate base position the grid cell of column i mod 6 and
\* row i div 6, the cells spaced by footprint + gap from the start offset:
\* (startX + (i mod 6) * (tableWidth + gapX),
\*  startY + (i div 6) * (tableHeight + gapY)).
C18_SeedCellSpacedByFootprintPlusGap ==
    SeedJustCalled =>
        LET i == seedIndex - 1
        IN /\ stack[1].baseX
                = (startX + (i % 6) * (tableWidth + gapX)) * Scale
           /\ stack[1].baseY
                = (startY + (i \div 6) * (tableHeight + gapY)) * Scale

\* the n-th point (n = 0, 1, ...) of the spiral around a base point: the
\* angle steps by 45 degrees and after each full sweep the radius grows by
\* half of max(tableWidth, tableHeight)
Candidate(baseX, baseY, n) ==
    LET radius == (n \div 8) * (Max(tableWidth, tableHeight) \div 2)
    IN [x |-> baseX + radius * Cos(n % 8, 8),
        y |-> baseY + radius * Sin(n % 8, 8)]
OverlapsPlaced(p) ==
    \E id \in DOMAIN tablePositions : Overlaps(p, tablePositions[id])
Found == [x |-> Top.x, y |-> Top.y]

\* C19: when the search exhausts its 1000 iterations, the position it
\* returns is the last position it tested, the candidate of the 1000th
\* iteration.
C19_CapReturnsLastTested ==
    (lpc = "found" /\ capReached) =>
        Found = Candidate(Top.baseX, Top.baseY, 1000 - 1)

\* C20: when the cap is not reached the search returns the first point of
\* the spiral around the base point that overlaps no placed table; so a base
\* point that overlaps no placed table is returned itself, and the returned
\* point overlaps no placed table.
C20_FirstFreeCandidate ==
    (lpc = "found" /\ ~capReached) =>
        /\ \E n \in 0..(1000 - 1) :
              /\ Found = Candidate(Top.baseX, Top.baseY, n)
              /\ \A m \in 0..(n - 1) :
                    OverlapsPlaced(Candidate(Top.baseX, Top.baseY, m))
        /\ ~OverlapsPlaced(Found)
        /\ ~OverlapsPlaced([x |-> Top.baseX, y |-> Top.baseY])
              => Found = [x |-> Top.baseX, y |-> Top.baseY]
\* a search that went through more than two full sweeps before it found a
\* free point
C20_Witness ==
    /\ lpc = "found" /\ ~capReached
    /\ \A n \in 0..23 : OverlapsPlaced(Candidate(Top.baseX, Top.baseY, n))
    /\ ~OverlapsPlaced(Found)
\* a search whose base point was free
C20_WitnessBase ==
    /\ lpc = "found" /\ ~capReached
    /\ tablePositions # <<>>
    /\ Found = [x |-> Top.baseX, y |-> Top.baseY]

\* the connected component of a table id in the undirected graph of the
\* retained relationships
NeighborCountOf(id) == Cardinality(NeighborSet(id))
RECURSIVE ReachFrom(_, _)
ReachFrom(seen, frontier) ==
    IF frontier \subseteq seen THEN seen
    ELSE ReachFrom(seen \cup frontier,
                   UNION { NeighborSet(t) : t \in frontier })
Component(id) == ReachFrom({}, {id})
\* the grid loop starts a placement: the table of the new bottom frame is a
\* cluster seed
SeedStarts == lpc = "position" /\ stack = <<>> /\ stack' # <<>>
SeedId == objs[stack[1].table].id

\* C22: every connected component of the relationship graph has exactly one
\* cluster seed.  A table the grid loop starts from has no placed table in
\* its component and the largest neighbor set of its component; every table
\* is placed while the placement started at the seed of its own component
\* is running; when the grid loop is in control again, every component is
\* placed wholly or not at all; and at the end every table is placed.
C22_OneSeedPerComponent ==
    /\ [][ SeedStarts =>
             LET s == objs[stack'[1].table].id
             IN /\ Component(s) \cap positionedTables = {}
                /\ \A t \in Component(s) :
                      NeighborCountOf(t) <= NeighborCountOf(s) ]_vars
    /\ [][ (lpc = "position" /\ positionedTables' # positionedTables) =>
             /\ stack # <<>>
             /\ (positionedTables' \ positionedTables)
                   \subseteq Component(SeedId) ]_vars
    /\ []( (lpc = "position" /\ stack = <<>>) =>
             \A t \in positionedTables :
                 Component(t) \subseteq positionedTables )
    /\ []( lpc = "done" => TableIds \subseteq positionedTables )
\* a finished run over a chain of three tables whose middle table, the seed,
\* is not the first input table
C22_Witness ==
    /\ lpc = "done" /\ DistinctIds
    /\ Len(inputTables) = 3
    /\ Component(1) = {1, 2, 3}
    /\ NeighborCountOf(1) = 1 /\ NeighborCountOf(2) = 2
    /\ NeighborCountOf(3) = 1
\* the grid loop is about to go on after it placed a component of two
\* tables, a third table still unplaced
C22_WitnessTwoComponents ==
    /\ lpc = "position" /\ stack = <<>> /\ DistinctIds
    /\ Cardinality(positionedTables) = 2
    /\ \A t \in positionedTables : Component(t) = positionedTables
    /\ Len(inputTables) = 3

\* the walk around the table of the top frame has reached a neighbor
NeighborReached ==
    /\ lpc = "position" /\ stack # <<>>
    /\ Top.stage = "forEach"
    /\ Top.cursor <= Len(ConnectedTables(objs[Top.table].id))
ReachedId == ConnectedTables(objs[Top.table].id)[Top.cursor]
Parent == stack[Len(stack) - 1]
\* the frame of a table that has just been placed
JustPlaced ==
    /\ lpc = "position" /\ stack # <<>>
    /\ Top.stage = "call"
    /\ objs[Top.table].id \notin positionedTables

\* C23: when table T with neighbor set N is placed at (x, y), the j-th
\* neighbor whose placement is started from T (j counted from 0 over the
\* neighbors that are not placed when the walk reaches them) gets the base
\* point (x + cos(j * 360/|N|) * (tableWidth + 2 gapX),
\*        y + sin(j * 360/|N|) * (tableHeight + 2 gapY)),
\* |N| counting every neighbor of T.  The count j is 0 when T is placed,
\* grows by one with every placement started from T and stays as it is when
\* a neighbor is skipped.
C23_NeighborBasePoints ==
    /\ [][ JustPlaced =>
             LET f == stack'[Len(stack)]
                 id == objs[Top.table].id
             IN /\ f.angle = 0
                /\ [x |-> f.x, y |-> f.y] = tablePositions'[id] ]_vars
    /\ [][ NeighborReached =>
             LET n == NeighborCountOf(objs[Top.table].id)
                 j == Top.angle
             IN IF ReachedId \notin positionedTables
                THEN /\ Len(stack') = Len(stack) + 1
                     /\ objs[stack'[Len(stack')].table].id = ReachedId
                     /\ stack'[Len(stack')].baseX
                          = Top.x + Cos(j, n) * (tableWidth + 2 * gapX)
                     /\ stack'[Len(stack')].baseY
                          = Top.y + Sin(j, n) * (tableHeight + 2 * gapY)
                     /\ stack'[Len(stack)].angle = j + 1
                     /\ stack'[Len(stack)].x = Top.x
                     /\ stack'[Len(stack)].y = Top.y
                ELSE /\ Len(stack') = Len(stack)
                     /\ stack'[Len(stack)].angle = j
                     /\ stack'[Len(stack)].x = Top.x
                     /\ stack'[Len(stack)].y = Top.y ]_vars
\* a placement has just been started for a neighbor reached after a
\* neighbor that was skipped: its offset is the one of the count, not the
\* one of its place in the neighbor set
C23_Witness ==
    /\ lpc = "position" /\ Len(stack) >= 2 /\ DistinctIds
    /\ Top.stage = "call"
    /\ Parent.cursor - 1 > Parent.angle
    /\ Top.baseX = Parent.x + Scale * (tableWidth + 2 * gapX)
    /\ Top.baseY = Parent.y
\* a placement has just been started for the second started neighbor of a
\* table with two neighbors, at 180 degrees
C23_WitnessSecond ==
    /\ lpc = "position" /\ Len(stack) >= 2 /\ DistinctIds
    /\ Top.stage = "call"
    /\ Parent.angle = 2
    /\ NeighborCountOf(objs[Parent.table].id) = 2
    /\ Top.baseX = Parent.x - Scale * (tableWidth + 2 * gapX)

SecondCallDone(kind) ==
    lpc = "done" /\ callNo = 2 /\ previous.kind = kind
IsDangling(r) ==
    r.sourceTableId \notin TableIds \/ r.targetTableId \notin TableIds
\* relationships name this table, and every one of them is dangling
OnlyDangling(id) ==
    /\ \E k \in 1..Len(inputRelationships) :
          \/ inputRelationships[k].sourceTableId = id
          \/ inputRelationships[k].targetTableId = id
    /\ \A k \in 1..Len(inputRelationships) :
          (\/ inputRelationships[k].sourceTableId = id
           \/ inputRelationships[k].targetTableId = id)
              => IsDangling(inputRelationships[k])

\* C21: a relationship whose source or target is the id of no input table
\* has no effect: the call returns the same positions with it as without
\* it, and a table whose only relationships are dangling ones has an empty
\* neighbor set in the connection map.
C21_DanglingRelationshipNoEffect ==
    /\ SecondCallDone("removed") => ReturnedPositions = previous.positions
    /\ lpc \in {"position", "apply", "done"} =>
          \A id \in TableIds :
              OnlyDangling(id) => ConnSize(tableConnections, id) = 0
\* a second call has returned: the first had a dangling relationship, now
\* removed, before a relationship between two tables, and a table whose
\* only relationship was the dangling one
C21_Witness ==
    /\ SecondCallDone("removed")
    /\ DistinctIds
    /\ Len(result) = 3
    /\ Len(previous.relationships) = 2
    /\ Len(inputRelationships) = 1
    /\ inputRelationships[1] = previous.relationships[2]
    /\ ~IsDangling(inputRelationships[1])
    /\ inputRelationships[1].sourceTableId
         # inputRelationships[1].targetTableId
    /\ previous.relationships[1].sourceTableId \in TableIds
    /\ NeighborSet(previous.relationships[1].sourceTableId) = {}

\* C24: the positions returned do not depend on the x and y the input
\* tables carry: a call on the same tables and relationships with other
\* input coordinates returns the same coordinates for every table.
C24_InputCoordinatesIgnored ==
    SecondCallDone("moved") =>
        /\ ReturnedPositions = previous.positions
        /\ \A i \in 1..Len(inputTables) :
              /\ CallerTables[i].id = previous.tables[i].id
              /\ CallerTables[i].name = previous.tables[i].name
              /\ CallerTables[i].attrs = previous.tables[i].attrs
\* a second call has returned whose tables all came in at the origin and
\* went out somewhere else, two of them related
C24_Witness ==
    /\ SecondCallDone("moved")
    /\ Len(result) = 3
    /\ inputRelationships = previous.relationships
    /\ \E k \in 1..Len(inputRelationships) :
          ~IsDangling(inputRelationships[k])
    /\ \A i \in 1..Len(inputTables) :
          /\ CallerTables[i].x = 0 /\ CallerTables[i].y = 0
          /\ previous.tables[i].x # 0
          /\ ReturnedPositions[i].x # 0
\* a second call on the positions the first call returned
C24_WitnessReturned ==
    /\ SecondCallDone("moved")
    /\ Len(result) = 3
    /\ \A i \in 1..Len(inputTables) :
          /\ CallerTables[i].x = previous.positions[i].x
          /\ CallerTables[i].y = previous.positions[i].y
          /\ CallerTables[i].x # previous.tables[i].x

---------------------------------------------------------------------------
\* The metadata normalizer: createTablesFromMetadata
\*
\* A string is a sequence of characters; an optional string (schema?:
\* string) is <<>> for undefined and <<s>> for the string s.

Undefined == <<>>
Some(s) == <<s>>
IsUndefined(v) == v = <<>>
EmptyString == <<>>

\* schemaNameToDomainSchemaName: every absent variant (undefined, '') maps
\* to undefined, any other name to itself
schemaNameToDomainSchemaName(schema) ==
    IF IsUndefined(schema) \/ schema = Some(EmptyString)
    THEN Undefined ELSE schema

\* String.prototype.trim
IsSpace(c) == c = " "
RECURSIVE TrimStart(_)
TrimStart(str) ==
    IF str # <<>> /\ IsSpace(Head(str)) THEN TrimStart(Tail(str)) ELSE str
RECURSIVE TrimEnd(_)
TrimEnd(str) ==
    IF str # <<>> /\ IsSpace(str[Len(str)])
    THEN TrimEnd(SubSeq(str, 1, Len(str) - 1)) ELSE str
Trim(str) == TrimEnd(TrimStart(str))

\* col.type.split(' ').join('_')
TypeId(type) == [i \in 1..Len(type) |-> IF type[i] = " " THEN "_" ELSE type[i]]

\* `${idx.schema}_${idx.name}`: undefined prints as "undefined"
TemplateString(v) ==
    IF IsUndefined(v) THEN <<"u", "n", "d", "e", "f", "i", "n", "e", "d">>
    ELSE v[1]
IndexKey(idx) == TemplateString(idx.schema) \o <<"_">> \o idx.name

\* lines 59-64: the column rows of this table descriptor, in raw order
MatchingColumns(tableInfo, cols) ==
    SelectSeq(cols, LAMBDA col :
        /\ schemaNameToDomainSchemaName(col.schema)
             = schemaNameToDomainSchemaName(tableInfo.schema)
        /\ col.table = tableInfo.table)

HasName(rows, name) == \E i \in 1..Len(rows) : rows[i].name = name

KeepLast(acc, col) ==
    IF HasName(acc, col.name)
    THEN [i \in 1..Len(acc) |-> IF acc[i].name = col.name THEN col ELSE acc[i]]
    ELSE Append(acc, col)
\* if (!uniqueColumns.has(col.name)) uniqueColumns.set(col.name, col)
KeepFirst(acc, col) ==
    IF HasName(acc, col.name) THEN acc ELSE Append(acc, col)

\* lines 65-69: Array.from(uniqueColumns.values()), in insertion order
RECURSIVE UniqueColumns(_, _)
UniqueColumns(rows, acc) ==
    IF rows = <<>> THEN acc
    ELSE UniqueColumns(Tail(rows), KeepFirst(acc, Head(rows)))

ComesBeforeUnstable(a, b) == a.ordinal_position < b.ordinal_position
\* a stays before b when the comparator a.ordinal_position -
\* b.ordinal_position is not positive (Array.prototype.sort is stable)
ComesBefore(a, b) == a.ordinal_position <= b.ordinal_position

RECURSIVE InsertByOrdinal(_, _)
InsertByOrdinal(s, col) ==
    IF s = <<>> THEN <<col>>
    ELSE IF ComesBefore(Head(s), col)
         THEN <<Head(s)>> \o InsertByOrdinal(Tail(s), col)
         ELSE <<col>> \o s
\* lines 71-73: .sort((a, b) => a.ordinal_position - b.ordinal_position)
RECURSIVE SortByOrdinal(_, _)
SortByOrdinal(rows, acc) ==
    IF rows = <<>> THEN acc
    ELSE SortByOrdinal(Tail(rows), InsertByOrdinal(acc, Head(rows)))

SortedColumns(tableInfo, cols) ==
    SortByOrdinal(UniqueColumns(MatchingColumns(tableInfo, cols), <<>>), <<>>)

\* lines 75-81: the trimmed columns of this table's primary-key descriptors
TablePrimaryKeys(tableInfo, pks) ==
    LET mine == SelectSeq(pks, LAMBDA pk :
                   /\ pk.table = tableInfo.table
                   /\ schemaNameToDomainSchemaName(pk.schema)
                        = schemaNameToDomainSchemaName(tableInfo.schema))
    IN [i \in 1..Len(mine) |-> Trim(mine[i].column)]

\* tablePrimaryKeys.includes(col.name)
Includes(list, v) == \E i \in 1..Len(list) : list[i] = v

\* lines 83-87
TableIndexes(tableInfo, idxs) ==
    SelectSeq(idxs, LAMBDA idx :
        /\ idx.table = tableInfo.table
        /\ schemaNameToDomainSchemaName(idx.schema)
             = schemaNameToDomainSchemaName(tableInfo.schema))

\* lines 90-114: the reduce; the accumulator is kept in key insertion order,
\* the order Object.values returns
RECURSIVE AggregatedIndexes(_, _)
AggregatedIndexes(rows, acc) ==
    IF rows = <<>> THEN acc
    ELSE LET idx == Head(rows)
             key == IndexKey(idx)
             col == [name |-> idx.column, position |-> idx.column_position]
             next ==
               IF \E i \in 1..Len(acc) : acc[i].key = key
               THEN [i \in 1..Len(acc) |->
                       IF acc[i].key = key
                       THEN [acc[i] EXCEPT !.columns = Append(@, col)]
                       ELSE acc[i]]
               ELSE Append(acc, [key |-> key, schema |-> idx.schema,
                                 table |-> idx.table, name |-> idx.name,
                                 unique |-> idx.unique, columns |-> <<col>>])
         IN AggregatedIndexes(Tail(rows), next)

\* lines 122-127
FieldUnique(aggregated, col) ==
    \E i \in 1..Len(aggregated) :
        /\ aggregated[i].unique
        /\ Len(aggregated[i].columns) = 1
        /\ aggregated[i].columns[1].name = col.name

\* lines 116-142: the k-th field, with the k-th fresh id from firstId on
Field(col, k, firstId, tablePks, aggregated) ==
    [id |-> firstId + k - 1,
     name |-> col.name,
     type |-> [id |-> TypeId(col.type), name |-> col.type],
     primaryKey |-> Includes(tablePks, col.name),
     unique |-> FieldUnique(aggregated, col),
     nullable |-> col.nullable]

KeepRowOrder(s, c) == Append(s, c)
RECURSIVE InsertByPosition(_, _)
InsertByPosition(s, c) ==
    IF s = <<>> THEN <<c>>
    ELSE IF Head(s).position <= c.position
         THEN <<Head(s)>> \o InsertByPosition(Tail(s), c)
         ELSE <<c>> \o s
\* idx.columns.sort((a, b) => a.position - b.position)
RECURSIVE SortByPosition(_, _)
SortByPosition(cols, acc) ==
    IF cols = <<>> THEN acc
    ELSE SortByPosition(Tail(cols), InsertByPosition(acc, Head(cols)))

RECURSIVE KeepUndefined(_, _)
KeepUndefined(cols, fields) ==
    IF cols = <<>> THEN <<>>
    ELSE LET c == Head(cols)
             rest == KeepUndefined(Tail(cols), fields)
         IN IF \E i \in 1..Len(fields) : fields[i].name = c.name
            THEN <<fields[CHOOSE i \in 1..Len(fields) :
                            fields[i].name = c.name].id>> \o rest
            ELSE <<0>> \o rest
\* .map((c) => fields.find((f) => f.name === c.name)?.id)
\* .filter((id) => id !== undefined)
RECURSIVE FieldIds(_, _)
FieldIds(cols, fields) ==
    IF cols = <<>> THEN <<>>
    ELSE LET c == Head(cols)
             rest == FieldIds(Tail(cols), fields)
         IN IF \E i \in 1..Len(fields) : fields[i].name = c.name
            THEN <<fields[CHOOSE i \in 1..Len(fields) :
                            /\ fields[i].name = c.name
                            /\ \A j \in 1..(i - 1) : fields[j].name # c.name].id>>
                 \o rest
            ELSE rest

\* lines 144-155: the k-th index, with the k-th fresh id from firstId on
DbIndex(idx, k, firstId, fields) ==
    [id |-> firstId + k - 1,
     name |-> idx.name,
     unique |-> idx.unique,
     fieldIds |-> FieldIds(SortByPosition(idx.columns, <<>>), fields)]

IsViewByName(tableInfo, vws) ==
    \E i \in 1..Len(vws) : vws[i].view_name = tableInfo.table
\* lines 158-162
IsView(tableInfo, vws) ==
    \E i \in 1..Len(vws) :
        /\ schemaNameToDomainSchemaName(vws[i].schema)
             = schemaNameToDomainSchemaName(tableInfo.schema)
        /\ vws[i].view_name = tableInfo.table

\* '@/lib/colors': the fixed grey, and the palette randomColor() draws from
greyColor == "grey"
ColorOptions == {"red", "blue"}

ColorSwapped(isView, draw) == IF isView THEN draw.color ELSE greyColor
\* color: isView ? greyColor : randomColor()
TableColor(isView, draw) == IF isView THEN greyColor ELSE draw.color

\* the callback of tableInfos.map (lines 55-180) for one descriptor; ids are
\* taken in evaluation order: the fields', the indexes', then the table's
TableFromMetadata(tableInfo, firstId, draw) ==
    LET tableSchema == schemaNameToDomainSchemaName(tableInfo.schema)
        sortedColumns == SortedColumns(tableInfo, columns)
        tablePks == TablePrimaryKeys(tableInfo, primaryKeys)
        aggregated == AggregatedIndexes(TableIndexes(tableInfo, indexes), <<>>)
        fields == [k \in 1..Len(sortedColumns) |->
                     Field(sortedColumns[k], k, firstId, tablePks, aggregated)]
        dbIndexes == [k \in 1..Len(aggregated) |->
                        DbIndex(aggregated[k], k, firstId + Len(fields), fields)]
        isView == IsView(tableInfo, views)
    IN [id |-> firstId + Len(fields) + Len(dbIndexes),
        name |-> tableInfo.table,
        schema |-> tableSchema,
        x |-> draw.x,
        y |-> draw.y,
        fields |-> fields,
        indexes |-> dbIndexes,
        color |-> TableColor(isView, draw),
        isView |-> isView]

SkipEmptyTable(out, table) ==
    IF table.fields = <<>> THEN out ELSE Append(out, table)
\* Array.prototype.map collects one result per element, in order
Collect(out, table) == Append(out, table)

\* one call of the map callback
MapTable ==
    /\ npc = "map"
    /\ mapIndex < Len(tableInfos)
    /\ LET table == TableFromMetadata(tableInfos[mapIndex + 1], nextId,
                                      rng[mapIndex + 1])
       IN /\ mapped' = Collect(mapped, table)
          /\ nextId' = table.id + 1
    /\ mapIndex' = mapIndex + 1
    /\ UNCHANGED <<npc, tableInfos, columns, indexes, primaryKeys, views, rng,
                   dbTables, layoutVars, tokenVars, callVars,
                   dialogVars>>

\* return of createTablesFromMetadata
MapReturn ==
    /\ npc = "map"
    /\ mapIndex = Len(tableInfos)
    /\ dbTables' = mapped
    /\ npc' = "done"
    /\ UNCHANGED <<tableInfos, columns, indexes, primaryKeys, views, rng,
                   nextId, mapIndex, mapped, layoutVars, tokenVars,
                   callVars,
                   dialogVars>>

NormNext == MapTable \/ MapReturn

\* the layout engine is not running
LayoutIdle ==
    /\ lpc = "idle"
    /\ objs = <<>>
    /\ inputTables = <<>>
    /\ inputRelationships = <<>>
    /\ tables = <<>>
    /\ relationships = <<>>
    /\ tableConnections = <<>>
    /\ sortedTables = <<>>
    /\ positionedTables = {}
    /\ tablePositions = <<>>
    /\ seedIndex = 0
    /\ stack = <<>>
    /\ result = <<>>
    /\ capReached = FALSE

---------------------------------------------------------------------------
\* Inputs of the normalizer

MaxColumns == 2       \* at most this many raw column rows
MaxIndexRows == 2     \* at most this many raw index rows
MaxDescriptors == 2   \* at most this many table descriptors (view detection)
MaxViews == 2         \* at most this many view descriptors

SchemaS == Some(<<"s">>)
SchemaValues == {Undefined, Some(EmptyString), SchemaS}
TableT == <<"t">>
TableU == <<"u">>
ColA == <<"a">>
ColB == <<"b">>
ColC == <<"c">>
ColSpaceA == <<" ", "a">>
Digits == <<"1", "2", "3", "4", "5", "6", "7", "8", "9">>

TableInfo(schema, table) == [schema |-> schema, table |-> table]
\* the k-th raw column row; its type ("n 1", "n 2", ...) and nullable flag
\* tell the rows apart
ColumnInfo(schema, table, name, ordinal, k) ==
    [schema |-> schema, table |-> table, name |-> name,
     ordinal_position |-> ordinal, type |-> <<"n", " ", Digits[k]>>,
     nullable |-> (k % 2 = 1)]
IndexInfo(schema, table, name, unique, column, position) ==
    [schema |-> schema, table |-> table, name |-> name, unique |-> unique,
     column |-> column, column_position |-> position]
PrimaryKeyInfo(schema, table, column) ==
    [schema |-> schema, table |-> table, column |-> column]
ViewInfo(schema, name) == [schema |-> schema, view_name |-> name]

Targets ==
    {TableInfo(Undefined, TableT), TableInfo(Some(EmptyString), TableT),
     TableInfo(SchemaS, TableT), TableInfo(Undefined, TableU)}
Draws == {[color |-> c, x |-> 0, y |-> 0] : c \in ColorOptions}
FirstDraw == [color |-> "red", x |-> 437 * Scale, y |-> 212 * Scale]

\* column rows: every choice of (schema, table), name and ordinal per row
ColumnChoices == Targets \X {ColA, ColB, ColSpaceA} \X {1, 2}
ColumnInputs(max) ==
    UNION { { [k \in 1..n |->
                ColumnInfo(f[k][1].schema, f[k][1].table, f[k][2], f[k][3], k)]
              : f \in [1..n -> ColumnChoices] }
            : n \in 0..max }
TableInfoInputs ==
    { <<>>,
      <<TableInfo(Undefined, TableT)>>,
      <<TableInfo(SchemaS, TableT), TableInfo(Some(EmptyString), TableT)>> }
PrimaryKeyInputs ==
    { <<>>,
      <<PrimaryKeyInfo(Undefined, TableT, ColA)>>,
      <<PrimaryKeyInfo(Some(EmptyString), TableT, ColSpaceA)>>,
      <<PrimaryKeyInfo(SchemaS, TableT, <<"b", " ">>),
        PrimaryKeyInfo(Undefined, TableU, ColA)>> }
FewIndexInputs ==
    { <<>>, <<IndexInfo(Undefined, TableT, <<"i">>, TRUE, ColA, 1)>> }

\* index rows: every choice per row for the table (absent schema, t), plus
\* one row of another schema
IndexChoices ==
    { IndexInfo(sc, TableT, nm, u, c, pos) :
        sc \in {Undefined, Some(EmptyString)}, nm \in {<<"i">>, <<"j">>},
        u \in BOOLEAN, c \in {ColA, ColB, ColC}, pos \in {1, 2} }
    \cup { IndexInfo(SchemaS, TableT, <<"i">>, TRUE, ColA, 1) }
IndexInputs(max) == UNION { [1..n -> IndexChoices] : n \in 0..max }
FewColumnInputs ==
    { <<ColumnInfo(Undefined, TableT, ColA, 1, 1)>>,
      <<ColumnInfo(Undefined, TableT, ColB, 1, 1),
        ColumnInfo(Some(EmptyString), TableT, ColA, 2, 2)>> }

DescriptorChoices ==
    { TableInfo(sc, t) : sc \in SchemaValues, t \in {TableT, TableU} }
DescriptorInputs(max) ==
    UNION { [1..n -> DescriptorChoices] : n \in 0..max }
ViewInputs(max) ==
    UNION { [1..n -> { ViewInfo(sc, t) : sc \in SchemaValues,
                                         t \in {TableT, TableU} }]
            : n \in 0..max }

\* state at the call of createTablesFromMetadata
NormInit(TI, COLS, IDXS, PKS, VWS, DRAWS) ==
    /\ npc = "map"
    /\ tableInfos \in TI
    /\ columns \in COLS
    /\ indexes \in IDXS
    /\ primaryKeys \in PKS
    /\ views \in VWS
    /\ \E d \in DRAWS : rng = [i \in 1..Len(tableInfos) |-> d]
    /\ nextId = 1
    /\ mapIndex = 0
    /\ mapped = <<>>
    /\ dbTables = <<>>
    /\ LayoutIdle
    /\ TokenIdle
    /\ FirstCall
    /\ DialogIdle

\* columns and primary keys in every combination
SpecNormColumns ==
    /\ \/ NormInit(TableInfoInputs, ColumnInputs(MaxColumns), {<<>>},
                   PrimaryKeyInputs, {<<>>}, {FirstDraw})
       \/ NormInit(TableInfoInputs, ColumnInputs(MaxColumns), FewIndexInputs,
                   {<<>>}, {<<>>}, {FirstDraw})
    /\ [][NormNext]_vars
\* index rows in every combination
SpecNormIndexes ==
    /\ NormInit({<<TableInfo(Undefined, TableT)>>}, FewColumnInputs,
                IndexInputs(MaxIndexRows), {<<>>}, {<<>>}, {FirstDraw})
    /\ [][NormNext]_vars
\* table and view descriptors in every combination
SpecNormViews ==
    /\ NormInit(DescriptorInputs(MaxDescriptors), {<<>>}, {<<>>}, {<<>>},
                ViewInputs(MaxViews), Draws)
    /\ [][NormNext]_vars

---------------------------------------------------------------------------
\* Claims about createTablesFromMetadata

SameTable(row, tableInfo) ==
    /\ row.table = tableInfo.table
    /\ schemaNameToDomainSchemaName(row.schema)
         = schemaNameToDomainSchemaName(tableInfo.schema)
\* indices of the raw column rows matching the i-th descriptor
ColumnRowsOf(i) ==
    { k \in 1..Len(columns) : SameTable(columns[k], tableInfos[i]) }
\* the first matching raw row with this name
FirstRow(i, name) ==
    CHOOSE k \in ColumnRowsOf(i) :
        /\ columns[k].name = name
        /\ \A j \in ColumnRowsOf(i) : columns[j].name = name => k <= j
Returned == npc = "done"
FieldsOf(i) == dbTables[i].fields

\* C5: a table has exactly one field per distinct column name among its
\* matching column rows, and each field is built from the first matching
\* row with that name.
C5_OneFieldPerNameFromFirstRow ==
    Returned =>
        \A i \in 1..Len(dbTables) :
            /\ \A p, q \in 1..Len(FieldsOf(i)) :
                  p # q => FieldsOf(i)[p].name # FieldsOf(i)[q].name
            /\ { FieldsOf(i)[p].name : p \in 1..Len(FieldsOf(i)) }
                 = { columns[k].name : k \in ColumnRowsOf(i) }
            /\ \A p \in 1..Len(FieldsOf(i)) :
                  LET row == columns[FirstRow(i, FieldsOf(i)[p].name)]
                  IN /\ FieldsOf(i)[p].nullable = row.nullable
                     /\ FieldsOf(i)[p].type.name = row.type
\* a returned table with two matching rows of one name that differ in
\* ordinal position
C5_Witness ==
    /\ Returned
    /\ \E i \in 1..Len(dbTables) :
          /\ Len(FieldsOf(i)) = 1
          /\ \E k1, k2 \in ColumnRowsOf(i) :
                /\ k1 < k2
                /\ columns[k1].name = columns[k2].name
                /\ columns[k1].ordinal_position > columns[k2].ordinal_position

\* C6: the fields are in ascending ordinal_position of their (first) rows,
\* and fields of equal ordinal_position are in the order their rows first
\* appeared in the raw input.
C6_OrdinalOrderStable ==
    Returned =>
        \A i \in 1..Len(dbTables) :
            \A p, q \in 1..Len(FieldsOf(i)) :
                p < q =>
                    LET kp == FirstRow(i, FieldsOf(i)[p].name)
                        kq == FirstRow(i, FieldsOf(i)[q].name)
                    IN /\ columns[kp].ordinal_position
                            <= columns[kq].ordinal_position
                       /\ columns[kp].ordinal_position
                            = columns[kq].ordinal_position => kp < kq
\* a returned table whose two fields are in the reverse of the raw row order
C6_Witness ==
    /\ Returned
    /\ \E i \in 1..Len(dbTables) :
          /\ Len(FieldsOf(i)) = 2
          /\ FirstRow(i, FieldsOf(i)[1].name) > FirstRow(i, FieldsOf(i)[2].name)

\* the groups of raw index rows of the i-th descriptor: rows of one index
\* share the schema and the index name
IndexRowsOf(i) ==
    { k \in 1..Len(indexes) : SameTable(indexes[k], tableInfos[i]) }
SameIndex(k1, k2) ==
    /\ indexes[k1].schema = indexes[k2].schema
    /\ indexes[k1].name = indexes[k2].name
IndexMarkedUnique(i, k) ==
    \E k0 \in IndexRowsOf(i) :
        /\ SameIndex(k0, k)
        /\ \A j \in IndexRowsOf(i) : SameIndex(j, k) => k0 <= j
        /\ indexes[k0].unique
IndexCovers(i, k) ==
    { indexes[j].column : j \in { j \in IndexRowsOf(i) : SameIndex(j, k) } }

\* C7: a field is unique iff some index of its table is marked unique and
\* covers precisely that single column, whatever the raw index rows are,
\* repeated rows for one (index, column) included.
C7_UniqueIffSingleColumnUniqueIndex ==
    Returned =>
        \A i \in 1..Len(dbTables) :
            \A p \in 1..Len(FieldsOf(i)) :
                FieldsOf(i)[p].unique <=>
                    \E k \in IndexRowsOf(i) :
                        /\ IndexMarkedUnique(i, k)
                        /\ IndexCovers(i, k) = {FieldsOf(i)[p].name}

\* C8: a field is a primary key iff some primary-key descriptor of the same
\* table and normalized schema names its column, both names trimmed.
C8_PrimaryKeyIffTrimmedNameListed ==
    Returned =>
        \A i \in 1..Len(dbTables) :
            \A p \in 1..Len(FieldsOf(i)) :
                FieldsOf(i)[p].primaryKey <=>
                    \E k \in 1..Len(primaryKeys) :
                        /\ SameTable(primaryKeys[k], tableInfos[i])
                        /\ Trim(primaryKeys[k].column)
                             = Trim(FieldsOf(i)[p].name)

\* C9: a table is a view iff some view descriptor has its name and its
\* normalized schema, and its color is the grey color iff it is a view.
C9_ViewIffDescriptorGreyIffView ==
    Returned =>
        \A i \in 1..Len(dbTables) :
            /\ dbTables[i].isView <=>
                  \E k \in 1..Len(views) :
                      /\ views[k].view_name = dbTables[i].name
                      /\ schemaNameToDomainSchemaName(views[k].schema)
                           = dbTables[i].schema
            /\ dbTables[i].color = greyColor <=> dbTables[i].isView
\* a view whose descriptors spell the absent schema differently, returned
\* with a table that no view descriptor matches in name and schema
C9_Witness ==
    /\ Returned
    /\ \E i, j \in 1..Len(dbTables) :
          /\ dbTables[i].isView
          /\ dbTables[i].color = greyColor
          /\ \E k \in 1..Len(views) :
                /\ views[k].view_name = tableInfos[i].table
                /\ views[k].schema # tableInfos[i].schema
                /\ IsUndefined(dbTables[i].schema)
          /\ ~dbTables[j].isView
          /\ dbTables[j].color \in ColorOptions
          /\ \E k \in 1..Len(views) : views[k].view_name = dbTables[j].name

\* C10: one table per descriptor, in descriptor order: every descriptor
\* visited has produced its table, also when nothing matches it; a descriptor
\* without matching column rows gets an empty field list and one without
\* matching index rows an empty index list.
C10_OneTablePerDescriptor ==
    /\ npc = "map" => (mapIndex <= Len(tableInfos) /\ Len(mapped) = mapIndex)
    /\ Returned =>
          /\ Len(dbTables) = Len(tableInfos)
          /\ \A i \in 1..Len(dbTables) :
                /\ dbTables[i].name = tableInfos[i].table
                /\ dbTables[i].schema
                     = schemaNameToDomainSchemaName(tableInfos[i].schema)
                /\ ColumnRowsOf(i) = {} => dbTables[i].fields = <<>>
                /\ IndexRowsOf(i) = {} => dbTables[i].indexes = <<>>
\* two returned tables: one with fields, the other with neither matching
\* column rows nor matching index rows although both inputs are non-empty
C10_Witness ==
    /\ Returned
    /\ Len(dbTables) = 2
    /\ columns # <<>> /\ indexes # <<>>
    /\ \E i, j \in 1..Len(dbTables) :
          /\ dbTables[i].fields # <<>>
          /\ ColumnRowsOf(j) = {} /\ IndexRowsOf(j) = {}
          /\ dbTables[j].fields = <<>> /\ dbTables[j].indexes = <<>>

\* the raw index rows of the i-th descriptor that open an index: no earlier
\* matching row has their schema and index name
IndexHeads(i) ==
    { k \in IndexRowsOf(i) :
        \A j \in IndexRowsOf(i) : SameIndex(j, k) => k <= j }
\* the n-th of them in raw order
NthHead(i, n) ==
    CHOOSE k \in IndexHeads(i) :
        Cardinality({ j \in IndexHeads(i) : j < k }) = n - 1
IndexGroup(i, k) == { j \in IndexRowsOf(i) : SameIndex(j, k) }
\* rows of the group whose column is the name of a field of the table
Resolvable(i, k) ==
    { j \in IndexGroup(i, k) :
        \E p \in 1..Len(FieldsOf(i)) : FieldsOf(i)[p].name = indexes[j].column }
FieldIdOf(i, name) ==
    FieldsOf(i)[CHOOSE p \in 1..Len(FieldsOf(i)) : FieldsOf(i)[p].name = name].id
\* row j1 comes before row j2 by column_position, raw order breaking ties
PositionBefore(j1, j2) ==
    \/ indexes[j1].column_position < indexes[j2].column_position
    \/ /\ indexes[j1].column_position = indexes[j2].column_position
       /\ j1 < j2
\* the r-th resolvable row of the group in column_position order
NthByPosition(i, k, r) ==
    CHOOSE j \in Resolvable(i, k) :
        Cardinality({ j0 \in Resolvable(i, k) : PositionBefore(j0, j) }) = r - 1
IndexesOf(i) == dbTables[i].indexes

\* C15: the fieldIds of an Index are the ids of the fields its raw rows
\* name, in ascending column_position of those rows (raw order for equal
\* positions), each column name resolved to the id of the field of that
\* name in the same table.
C15_FieldIdsByColumnPosition ==
    Returned =>
        \A i \in 1..Len(dbTables) :
            /\ Len(IndexesOf(i)) = Cardinality(IndexHeads(i))
            /\ \A n \in 1..Len(IndexesOf(i)) :
                  LET k == NthHead(i, n)
                      ids == IndexesOf(i)[n].fieldIds
                  IN /\ Len(ids) = Cardinality(Resolvable(i, k))
                     /\ \A r \in 1..Len(ids) :
                           ids[r] = FieldIdOf(i,
                                      indexes[NthByPosition(i, k, r)].column)
\* a returned index over two fields whose fieldIds follow neither the raw
\* row order nor the table's field order
C15_Witness ==
    /\ Returned
    /\ \E i \in 1..Len(dbTables) :
          \E n \in 1..Len(IndexesOf(i)) :
              LET ids == IndexesOf(i)[n].fieldIds
                  k == NthHead(i, n)
              IN /\ Len(ids) = 2
                 /\ ids[1] > ids[2]
                 /\ Cardinality(IndexGroup(i, k)) = 2
                 /\ \E j \in IndexGroup(i, k) :
                       /\ j # k
                       /\ indexes[j].column_position
                            < indexes[k].column_position
                       /\ FieldIdOf(i, indexes[j].column)
                            > FieldIdOf(i, indexes[k].column)

FieldIdSet(i) == { FieldsOf(i)[p].id : p \in 1..Len(FieldsOf(i)) }

\* C16: every id in the fieldIds of an Index is the id of a field of the
\* same table; an index row naming a column that is not a field of the table
\* adds nothing to fieldIds; and every group of index rows still yields its
\* Index, with the name and the unique flag of its rows, also when all of
\* its columns are dropped.
C16_NoDanglingFieldIds ==
    Returned =>
        \A i \in 1..Len(dbTables) :
            /\ Len(IndexesOf(i)) = Cardinality(IndexHeads(i))
            /\ \A n \in 1..Len(IndexesOf(i)) :
                  LET k == NthHead(i, n)
                      idx == IndexesOf(i)[n]
                  IN /\ \A r \in 1..Len(idx.fieldIds) :
                           idx.fieldIds[r] \in FieldIdSet(i)
                     /\ Len(idx.fieldIds) = Cardinality(Resolvable(i, k))
                     /\ idx.name = indexes[k].name
                     /\ idx.unique = indexes[k].unique
\* a returned Index all of whose rows name columns the table does not have
C16_Witness ==
    /\ Returned
    /\ \E i \in 1..Len(dbTables) :
          \E n \in 1..Len(IndexesOf(i)) :
              /\ IndexesOf(i)[n].fieldIds = <<>>
              /\ Cardinality(IndexGroup(i, NthHead(i, n))) = 2
              /\ IndexesOf(i)[n].unique
              /\ FieldsOf(i) # <<>>
\* a returned Index that kept one column and dropped the other
C16_WitnessPartial ==
    /\ Returned
    /\ \E i \in 1..Len(dbTables) :
          \E n \in 1..Len(IndexesOf(i)) :
              /\ Len(IndexesOf(i)[n].fieldIds) = 1
              /\ Cardinality(IndexGroup(i, NthHead(i, n))) = 2
              /\ Cardinality(Resolvable(i, NthHead(i, n))) = 1

\* C17: the raw index rows matched to a table (same table name, same
\* normalized schema, so that undefined and '' are one schema) give one
\* Index per distinct index name: rows of one name are aggregated into one
\* Index and rows of different names go to different Indexes.
C17_OneIndexPerName ==
    Returned =>
        \A i \in 1..Len(dbTables) :
            /\ Len(IndexesOf(i))
                 = Cardinality({ indexes[k].name : k \in IndexRowsOf(i) })
            /\ \A n, m \in 1..Len(IndexesOf(i)) :
                  n # m => IndexesOf(i)[n].name # IndexesOf(i)[m].name

\* C26: the fieldIds of every Index hold no field id more than once, for
\* every combination of raw index rows, repeated rows for one index and
\* column included.
C26_NoRepeatedFieldId ==
    Returned =>
        \A i \in 1..Len(dbTables) :
            \A n \in 1..Len(IndexesOf(i)) :
                LET ids == IndexesOf(i)[n].fieldIds
                IN \A p, q \in 1..Len(ids) : p # q => ids[p] # ids[q]
\* the same for the inputs in which no two rows of an index name one column
NoRepeatedIndexColumn ==
    \A k1, k2 \in 1..Len(indexes) :
        (k1 # k2 /\ SameIndex(k1, k2)
           /\ indexes[k1].table = indexes[k2].table)
            => indexes[k1].column # indexes[k2].column
NoRepeatedFieldIdWithoutRepeatedRows ==
    NoRepeatedIndexColumn => C26_NoRepeatedFieldId

---------------------------------------------------------------------------
\* The token manager: tokenManager.ts and setAuthToken of index.ts

MaxCalls == 3     \* at most this many calls on the token manager
TokenStrings == {<<>>, <<"a">>, <<"b">>}     \* '', 'a', 'b'

TokenInit ==
    TokenIdle /\ LayoutIdle /\ NormIdle /\ FirstCall /\ DialogIdle

\* this.token = newToken
StoreToken(t, newToken) == StringValue(newToken)

\* tokenManager.setToken(newToken)
SetToken ==
    /\ Len(tokenCalls) < MaxCalls
    /\ \E newToken \in TokenStrings :
          /\ token' = StoreToken(token, newToken)
          /\ tokenCalls' = Append(tokenCalls, Call("setToken", newToken))
    /\ UNCHANGED <<getResult, layoutVars, normVars, callVars,
                   dialogVars>>

\* setAuthToken(token) of index.ts: tokenManager.setToken(token)
SetAuthToken ==
    /\ Len(tokenCalls) < MaxCalls
    /\ \E t \in TokenStrings :
          /\ token' = StoreToken(token, t)
          /\ tokenCalls' = Append(tokenCalls, Call("setAuthToken", t))
    /\ UNCHANGED <<getResult, layoutVars, normVars, callVars,
                   dialogVars>>

\* tokenManager.getToken()
GetToken ==
    /\ Len(tokenCalls) < MaxCalls
    /\ getResult' = IF Falsy(token) THEN Throws(NoTokenSet)
                    ELSE Returns(token[1])
    /\ tokenCalls' = Append(tokenCalls, Call("getToken", <<>>))
    /\ UNCHANGED <<token, layoutVars, normVars, callVars,
                   dialogVars>>

\* tokenManager.clearToken()
ClearToken ==
    /\ Len(tokenCalls) < MaxCalls
    /\ token' = Null
    /\ tokenCalls' = Append(tokenCalls, Call("clearToken", <<>>))
    /\ UNCHANGED <<getResult, layoutVars, normVars, callVars,
                   dialogVars>>

TokenNext == SetToken \/ SetAuthToken \/ GetToken \/ ClearToken
SpecToken == TokenInit /\ [][TokenNext]_vars

\* Claims about the token manager

IsSet(call) == call.name \in {"setToken", "setAuthToken"}
\* index of the latest setToken that no clearToken follows, 0 when none
LatestSet(calls) ==
    LET sets == { k \in 1..Len(calls) :
                    /\ IsSet(calls[k])
                    /\ \A j \in (k + 1)..Len(calls) :
                          calls[j].name # "clearToken" }
    IN IF sets = {} THEN 0
       ELSE CHOOSE k \in sets : \A j \in sets : j <= k
JustGot ==
    /\ tokenCalls # <<>>
    /\ tokenCalls[Len(tokenCalls)].name = "getToken"

\* C14: getToken throws 'No token set' exactly when no setToken (or
\* setAuthToken) has happened since construction or since the last
\* clearToken, and otherwise returns the argument of the most recent one,
\* for every string argument; getToken does not change the stored token.
C14_GetTokenReturnsLatestSet ==
    /\ [](JustGot =>
            LET k == LatestSet(tokenCalls)
            IN IF k = 0 THEN getResult = Throws("No token set")
               ELSE getResult = Returns(tokenCalls[k].arg))
    /\ [][(tokenCalls' # tokenCalls
            /\ tokenCalls'[Len(tokenCalls')].name = "getToken")
           => token' = token]_vars

---------------------------------------------------------------------------
\* The import dialog: the ImportDatabase component
\*
\* React calls the component's event handlers one at a time and commits the
\* render of a state change before the next event; the function passed to
\* useEffect runs after the commit, as a step of its own, and always before
\* the next render.

MaxEvents == 4      \* at most this many text changes and clicks

errorScriptOutputMessage ==
    "Invalid JSON. Please correct it or contact us at chartdb.io@gmail.com for help."

\* A text is a sequence of characters.  MetadataJson stands for the JSON text
\* of an object that has every member isDatabaseMetadata asks for.
MetadataJson == <<"{", "m", "}">>
Texts ==
    { <<>>, <<" ">>, <<"{">>, <<"[", "]">>, MetadataJson,
      <<" ">> \o MetadataJson }

SyntaxError == [ok |-> FALSE]
Parsed(value) == [ok |-> TRUE, value |-> value]
\* JSON.parse on the texts above: white space around a value is skipped, a
\* lone "{" is a syntax error
JsonParse(text) ==
    LET t == Trim(text)
    IN IF t = <<"[", "]">> THEN Parsed("array")
       ELSE IF t = MetadataJson THEN Parsed("metadata")
       ELSE SyntaxError
isDatabaseMetadata(value) == value = "metadata"

\* scriptResult.trim().length === 0
IsBlank(text) == Len(Trim(text)) = 0

\* the body of the effect (lines 75-90): the message it sets for this text
ValidationMessage(text) ==
    IF IsBlank(text) THEN ""
    ELSE LET parsedResult == JsonParse(text)
         IN IF ~parsedResult.ok THEN errorScriptOutputMessage
            ELSE IF isDatabaseMetadata(parsedResult.value) THEN ""
                 ELSE errorScriptOutputMessage

\* the dialog right after its first render: no text, no message, the effect
\* of the first commit still to run
DialogInit ==
    /\ scriptResult = <<>>
    /\ errorMessage = ""
    /\ effectPending = TRUE
    /\ imported = <<>>
    /\ eventCount = 0
    /\ LayoutIdle
    /\ NormIdle
    /\ TokenIdle
    /\ FirstCall

\* onChange of the text area: handleInputChange calls setScriptResult, and
\* the dialog renders again when the text differs; an effect that is still
\* pending runs before that render, on the text of its own render
HandleInputChange ==
    /\ eventCount < MaxEvents
    /\ \E inputValue \in Texts :
          /\ scriptResult' = inputValue
          /\ IF inputValue = scriptResult
             THEN UNCHANGED <<errorMessage, effectPending>>
             ELSE /\ errorMessage' = IF effectPending
                                      THEN ValidationMessage(scriptResult)
                                      ELSE errorMessage
                  /\ effectPending' = TRUE
    /\ eventCount' = eventCount + 1
    /\ UNCHANGED <<imported, layoutVars, normVars, tokenVars, callVars>>

\* the effect on [scriptResult] (lines 74-91) and the render of its
\* setErrorMessage
ScriptResultEffect ==
    /\ effectPending
    /\ errorMessage' = ValidationMessage(scriptResult)
    /\ effectPending' = FALSE
    /\ UNCHANGED <<scriptResult, imported, eventCount,
                   layoutVars, normVars, tokenVars, callVars>>

\* disabled={scriptResult.trim().length === 0 || errorMessage.length > 0}
ImportDisabled == IsBlank(scriptResult) \/ errorMessage # ""

\* onImport()
OnImport == imported' = Append(imported, scriptResult)

\* a click on the import button, which is not disabled: handleImport
HandleImport ==
    /\ eventCount < MaxEvents
    /\ ~ImportDisabled
    /\ IF errorMessage = "" /\ ~IsBlank(scriptResult)
       THEN OnImport
       ELSE UNCHANGED imported
    /\ eventCount' = eventCount + 1
    /\ UNCHANGED <<scriptResult, errorMessage, effectPending,
                   layoutVars, normVars, tokenVars, callVars>>

DialogNext ==
    \/ HandleInputChange
    \/ ScriptResultEffect
    \/ HandleImport
SpecImportDialog == DialogInit /\ [][DialogNext]_vars

\* Claims about the import dialog

IsValidScriptResult(text) ==
    /\ ~IsBlank(text)
    /\ JsonParse(text).ok
    /\ isDatabaseMetadata(JsonParse(text).value)

\* C25: onImport is invoked only when the script result held at that moment
\* is non-blank and parses as JSON that satisfies isDatabaseMetadata, in
\* every interleaving of text changes, the validation effect and clicks on
\* the import button.
C25_ImportOnlyValidScriptResult ==
    \A k \in 1..Len(imported) : IsValidScriptResult(imported[k])
\* the same for the clicks that come when no effect is pending
ImportedWhenSettled ==
    [][ (imported' # imported /\ ~effectPending)
          => IsValidScriptResult(scriptResult) ]_vars

=============================================================================
